---- MODULE Spec2Model ----
(***************************************************************************)
(* A model of the anypay client: the signature builder, the blocking and   *)
(* the non-blocking request dispatcher, the facade methods built on them   *)
(* and the hosted-bill (SCI) flow of src/anypay/api.py.                    *)
(*                                                                         *)
(* Python values are records of one shape, [t, i, s, items], so that any   *)
(* two of them can be compared.  A digest is the value tagged with its     *)
(* algorithm and holding the exact text that was hashed: two digests are   *)
(* equal iff algorithm and hashed text are equal.                          *)
(***************************************************************************)
EXTENDS Integers, Sequences, FiniteSets, TLC

VARIABLES inst, probe, tasks

vars == <<inst, probe, tasks>>

----------------------------------------------------------------------------
(* Python values *)

None == [t |-> "none", i |-> 0, s |-> "", items |-> <<>>]

PyInt(n) == [t |-> "int", i |-> n, s |-> "", items |-> <<>>]

PyStr(x) == [t |-> "str", i |-> 0, s |-> x, items |-> <<>>]

\* a float, held by its repr
PyFloat(x) == [t |-> "float", i |-> 0, s |-> x, items |-> <<>>]

\* a JSON array / a JSON object whose entries are kept in document order
PyList(xs) == [t |-> "list", i |-> 0, s |-> "", items |-> xs]

PyDict(xs) == [t |-> "dict", i |-> 0, s |-> "", items |-> xs]

\* hashlib.<alg>(text.encode('utf-8')).hexdigest()
Digest(alg, text) == [t |-> alg, i |-> 0, s |-> text, items |-> <<>>]

\* str(v), as the %s conversion applies it
Str(v) ==
    CASE v.t = "none" -> "None"
      [] v.t = "int" -> ToString(v.i)
      [] OTHER -> v.s

\* bool(v)
Truthy(v) ==
    CASE v.t = "none" -> FALSE
      [] v.t = "int" -> v.i # 0
      [] v.t = "str" -> v.s # ""
      [] v.t = "float" -> v.s # "0.0"
      [] v.t \in {"list", "dict"} -> v.items # <<>>
      [] OTHER -> TRUE

\* a or b
PyOr(a, b) == IF Truthy(a) THEN a ELSE b

\* the empty mapping {}
EmptyMap == [k \in {} |-> None]

\* {**a, **b}: the later mapping wins
Merge(a, b) ==
    [k \in DOMAIN a \cup DOMAIN b |-> IF k \in DOMAIN b THEN b[k] ELSE a[k]]

DropFalsy(params) ==
    [k \in {key \in DOMAIN params : Truthy(params[key])} |-> params[k]]

\* {key: value for key, value in params.items() if value is not None}
DropNone(params) ==
    [k \in {key \in DOMAIN params : params[key] # None} |-> params[k]]

----------------------------------------------------------------------------
(* Outcomes of a call: a returned value or a raised exception *)

NoValue == [kind |-> "none", exc |-> "", code |-> None, message |-> None,
            value |-> EmptyMap]

Return(v) == [kind |-> "return", exc |-> "", code |-> None, message |-> None,
              value |-> v]

Raise(e) == [kind |-> "raise", exc |-> e, code |-> None, message |-> None,
             value |-> EmptyMap]

----------------------------------------------------------------------------
(* Sign templates: a %-format string is a sequence of literal segments and *)
(* %(key)s placeholders.                                                   *)

Ph(key) == [k |-> "key", v |-> key]

Lit(text) == [k |-> "lit", v |-> text]

\* template % params: [ok, s]; a placeholder whose key is missing raises KeyError
RECURSIVE Format(_, _)
Format(template, params) ==
    IF template = <<>> THEN [ok |-> TRUE, s |-> ""]
    ELSE LET seg == Head(template)
             rest == Format(Tail(template), params)
         IN  IF seg.k = "lit"
             THEN [ok |-> rest.ok, s |-> seg.v \o rest.s]
             ELSE IF seg.v \notin DOMAIN params
                  THEN [ok |-> FALSE, s |-> ""]
                  ELSE [ok |-> rest.ok, s |-> Str(params[seg.v]) \o rest.s]

----------------------------------------------------------------------------
(* AnyPayAPI: class attributes and __init__'s assignments *)

API_URL(endpoint, api_id) == "https://anypay.io/api/" \o endpoint \o "/" \o api_id

HEADERS ==
    [h \in {"Accept", "Content-Type"} |->
        IF h = "Accept" THEN "application/json" ELSE "multipart/form-data"]

\* timeout=60 of httpx.get in _make_request
RequestTimeout == 60

\* timeout=60 of the session built in __init__
SessionTimeout == 60

AsyncClientBare == [headers |-> EmptyMap, timeout |-> SessionTimeout]

\* httpx.AsyncClient(headers=self.HEADERS, timeout=60)
AsyncClient == [headers |-> HEADERS, timeout |-> SessionTimeout]

NoInstance ==
    [phase |-> "none", api_id |-> "", api_key |-> "", project_id |-> None,
     project_secret |-> None, use_md5 |-> FALSE, session |-> AsyncClient]

NewInstance(api_id, api_key, project_id, project_secret, use_md5) ==
    [phase |-> "ready", api_id |-> api_id, api_key |-> api_key,
     project_id |-> project_id, project_secret |-> project_secret,
     use_md5 |-> use_md5, session |-> AsyncClient]

----------------------------------------------------------------------------
(* _form_signature *)

_form_signature_alg_swapped(self, method, template, params, use_md5) ==
    LET body == Format(template, params)
    IN  IF ~body.ok THEN Raise("KeyError")
        ELSE Return(Digest(IF use_md5 THEN "sha256" ELSE "md5",
                           method \o self.api_id \o body.s \o self.api_key))

_form_signature(self, method, template, params, use_md5) ==
    LET body == Format(template, params)
    IN  IF ~body.ok THEN Raise("KeyError")
        ELSE Return(Digest(IF ~use_md5 THEN "sha256" ELSE "md5",
                           method \o self.api_id \o body.s \o self.api_key))

----------------------------------------------------------------------------
(* Requests and responses.  A response is [status, json]; its parsed body *)
(* is a mapping whose keys are among "error" and "result", each holding a  *)
(* mapping of its own.                                                     *)

NoRequest ==
    [client |-> "none", url |-> "", params |-> EmptyMap, headers |-> EmptyMap,
     timeout |-> 0]

\* AnyPayAPIError(exception)
AnyPayAPIError(exception) ==
    IF "message" \notin DOMAIN exception \/ "code" \notin DOMAIN exception
    THEN Raise("KeyError")
    ELSE [kind |-> "raise", exc |-> "AnyPayAPIError", code |-> exception["code"],
          message |-> exception["message"], value |-> EmptyMap]

_check_response_unless_result(response) ==
    IF "error" \in DOMAIN response /\ "result" \notin DOMAIN response
    THEN AnyPayAPIError(response["error"])
    ELSE NoValue

\* _check_response: NoValue when nothing is raised
_check_response(response) ==
    IF "error" \in DOMAIN response THEN AnyPayAPIError(response["error"])
    ELSE NoValue

----------------------------------------------------------------------------
(* _make_request and _make_request_async.  Each is split where the code    *)
(* waits for the network: what is sent, and what is made of the parsed     *)
(* response.  `raised` is the exception raised before anything is sent.    *)

_make_request_send(self, endpoint, sign_template, params) ==
    LET sign == _form_signature(self, endpoint, sign_template, params, self.use_md5)
    IN  IF sign.kind = "raise" THEN [request |-> NoRequest, raised |-> sign]
        ELSE [request |->
                 [client |-> "httpx.get",
                  url |-> API_URL(endpoint, self.api_id),
                  params |-> Merge([k \in {"sign"} |-> sign.value], DropNone(params)),
                  headers |-> HEADERS,
                  timeout |-> RequestTimeout],
              raised |-> NoValue]

_make_request_result(http) ==
    LET response == http.json
        check == _check_response(response)
    IN  IF check.kind = "raise" THEN check
        ELSE IF "result" \in DOMAIN response THEN Return(response["result"])
        ELSE Raise("KeyError")

_make_request(self, endpoint, sign_template, params, response) ==
    LET sent == _make_request_send(self, endpoint, sign_template, params)
    IN  IF sent.raised.kind = "raise"
        THEN [request |-> NoRequest, outcome |-> sent.raised]
        ELSE [request |-> sent.request, outcome |-> _make_request_result(response)]

_make_request_async_send_signs_sent(self, endpoint, sign_template, params) ==
    LET kept == DropNone(params)
        sign == _form_signature(self, endpoint, sign_template,
                                [k \in DOMAIN params |->
                                    IF k \in DOMAIN kept THEN params[k] ELSE PyStr("")],
                                self.use_md5)
    IN  IF sign.kind = "raise" THEN [request |-> NoRequest, raised |-> sign]
        ELSE [request |->
                 [client |-> "session",
                  url |-> API_URL(endpoint, self.api_id),
                  params |-> Merge([k \in {"sign"} |-> sign.value], kept),
                  headers |-> self.session.headers,
                  timeout |-> self.session.timeout],
              raised |-> NoValue]

_make_request_async_send(self, endpoint, sign_template, params) ==
    LET sign == _form_signature(self, endpoint, sign_template, params, self.use_md5)
    IN  IF sign.kind = "raise" THEN [request |-> NoRequest, raised |-> sign]
        ELSE [request |->
                 [client |-> "session",
                  url |-> API_URL(endpoint, self.api_id),
                  params |-> Merge([k \in {"sign"} |-> sign.value], DropNone(params)),
                  headers |-> self.session.headers,
                  timeout |-> self.session.timeout],
              raised |-> NoValue]

_make_request_async_result(http) ==
    LET response == http.json
        check == _check_response(response)
    IN  IF check.kind = "raise" THEN check
        ELSE IF "result" \in DOMAIN response THEN Return(response["result"])
        ELSE Raise("KeyError")

_make_request_async(self, endpoint, sign_template, params, response) ==
    LET sent == _make_request_async_send(self, endpoint, sign_template, params)
    IN  IF sent.raised.kind = "raise"
        THEN [request |-> NoRequest, outcome |-> sent.raised]
        ELSE [request |-> sent.request,
              outcome |-> _make_request_async_result(response)]

----------------------------------------------------------------------------
(* Typed records (pydantic models): a required field that is missing fails *)
(* validation; aliases name the JSON key a field is read from.             *)

Has(fields, keys) == keys \subseteq DOMAIN fields

Opt(fields, key, default) == IF key \in DOMAIN fields THEN fields[key] ELSE default

Bill(fields) ==
    IF ~Has(fields, {"pay_id", "payment_url"}) THEN Raise("ValidationError")
    ELSE Return([id |-> fields["pay_id"],
                 transaction_id |-> Opt(fields, "transaction_id", None),
                 status |-> Opt(fields, "status", PyStr("waiting")),
                 url |-> fields["payment_url"]])

Payment(fields) ==
    IF ~Has(fields, {"pay_id", "transaction_id", "status", "method", "amount",
                     "currency", "profit", "email", "desc", "date"})
    THEN Raise("ValidationError")
    ELSE Return([id |-> fields["pay_id"],
                 transaction_id |-> fields["transaction_id"],
                 status |-> fields["status"], method |-> fields["method"],
                 amount |-> fields["amount"], currency |-> fields["currency"],
                 profit |-> fields["profit"], email |-> fields["email"],
                 description |-> fields["desc"], date |-> fields["date"],
                 pay_date |-> Opt(fields, "pay_date", None)])

Payout(fields) ==
    IF ~Has(fields, {"payout_id", "transaction_id", "payout_type", "status",
                     "amount", "commission", "commission_type", "wallet",
                     "date", "complete_date"})
    THEN Raise("ValidationError")
    ELSE Return([id |-> fields["payout_id"],
                 transaction_id |-> fields["transaction_id"],
                 payout_type |-> fields["payout_type"], status |-> fields["status"],
                 amount |-> fields["amount"], commission |-> fields["commission"],
                 commission_type |-> fields["commission_type"],
                 exchange_rate |-> Opt(fields, "rate", None),
                 wallet |-> fields["wallet"], date |-> fields["date"],
                 complete_date |-> fields["complete_date"]])

Rates(fields) ==
    IF ~Has(fields, {"in", "out"}) THEN Raise("ValidationError")
    ELSE Return([in_ |-> fields["in"], out |-> fields["out"]])

\* [Model(**x) for x in collection.values()] if collection else []
\* Model is applied to each entry in turn; the first failure is raised.
RECURSIVE Records(_, _)
Records(kind, entries) ==
    IF entries = <<>> THEN Return(<<>>)
    ELSE LET first == IF kind = "Payment" THEN Payment(Head(entries).val)
                      ELSE Payout(Head(entries).val)
             rest == Records(kind, Tail(entries))
         IN  IF first.kind = "raise" THEN first
             ELSE IF rest.kind = "raise" THEN rest
             ELSE Return(<<first.value>> \o rest.value)

Collection(kind, result, key) ==
    IF key \notin DOMAIN result THEN Raise("KeyError")
    ELSE IF ~Truthy(result[key]) THEN Return(<<>>)
    ELSE IF result[key].t # "dict" THEN Raise("AttributeError")
    ELSE Records(kind, result[key].items)

----------------------------------------------------------------------------
(* The facade methods.  <method>_call is the call the method makes on the  *)
(* dispatcher: the number of positional arguments it passes, the endpoint, *)
(* the sign template and the keyword parameters.  <method>_return is what  *)
(* it makes of the dispatcher's result.                                    *)

Call(npos, endpoint, sign_template, params) ==
    [npos |-> npos, endpoint |-> endpoint, sign_template |-> sign_template,
     params |-> params]

get_balance_call(self, args) == Call(1, "balance", <<>>, EmptyMap)

get_balance_return(result) ==
    IF "balance" \in DOMAIN result THEN Return(result["balance"])
    ELSE Raise("KeyError")

get_convertion_rates_call(self, args) == Call(1, "rates", <<>>, EmptyMap)

get_convertion_rates_return(result) == Rates(result)

get_commissions_call(self, args) ==
    Call(2, "commissions", <<Ph("project_id")>>,
         [k \in {"project_id"} |-> PyOr(args["project_id"], self.project_id)])

\* the `commissions` property takes no argument
commissions_call(self, args) ==
    Call(2, "commissions", <<Ph("project_id")>>,
         [k \in {"project_id"} |-> self.project_id])

get_commissions_return(result) == Return(result)

\* create_payment passes self.API_URL, 'create-payment' and the template as
\* three positional arguments
create_payment_call(self, args) ==
    Call(3, "https://anypay.io/api/%s/%s", <<Lit("create-payment")>>,
         [k \in {"project_id", "pay_id", "amount", "currency", "desc", "method",
                 "method_currency", "email", "phone", "tail", "success_url",
                 "fail_url", "lang"} |->
             IF k = "project_id" THEN PyOr(args["project_id"], self.project_id)
             ELSE args[k]])

create_payment_return(result) == Bill(result)

get_payments_call(self, args) ==
    Call(2, "payments", <<Ph("project_id")>>,
         [k \in {"project_id", "transaction_id", "pay_id", "offset"} |->
             IF k = "project_id" THEN PyOr(args["project_id"], self.project_id)
             ELSE args[k]])

get_payments_return(result) == Collection("Payment", result, "payments")

create_payout_call(self, args) ==
    Call(2, "create-payout",
         <<Ph("payout_id"), Ph("payout_type"), Ph("amount"), Ph("wallet")>>,
         [k \in {"payout_id", "payout_type", "amount", "wallet", "wallet_currency",
                 "commission_type", "status_url"} |-> args[k]])

create_payout_return(result) == Payout(result)

get_payouts_call(self, args) ==
    Call(1, "payouts", <<>>,
         [k \in {"transaction_id", "payout_id", "offset"} |-> args[k]])

get_payouts_return(result) == Collection("Payout", result, "payouts")

get_service_ip_call(self, args) == Call(1, "ip-notification", <<>>, EmptyMap)

get_service_ip_return(result) == Return(result)

\* the dispatcher call a facade method makes; the properties balance,
\* convertion_rates and service_ip make the call of their get_ method
FacadeCall(self, op, args) ==
    CASE op \in {"get_balance", "balance"} -> get_balance_call(self, args)
      [] op \in {"get_convertion_rates", "convertion_rates"} ->
            get_convertion_rates_call(self, args)
      [] op = "get_commissions" -> get_commissions_call(self, args)
      [] op = "commissions" -> commissions_call(self, args)
      [] op = "create_payment" -> create_payment_call(self, args)
      [] op = "get_payments" -> get_payments_call(self, args)
      [] op = "create_payout" -> create_payout_call(self, args)
      [] op = "get_payouts" -> get_payouts_call(self, args)
      [] op \in {"get_service_ip", "service_ip"} -> get_service_ip_call(self, args)

FacadeReturn(op, result) ==
    CASE op \in {"get_balance", "balance"} -> get_balance_return(result)
      [] op \in {"get_convertion_rates", "convertion_rates"} ->
            get_convertion_rates_return(result)
      [] op \in {"get_commissions", "commissions"} -> get_commissions_return(result)
      [] op = "create_payment" -> create_payment_return(result)
      [] op = "get_payments" -> get_payments_return(result)
      [] op = "create_payout" -> create_payout_return(result)
      [] op = "get_payouts" -> get_payouts_return(result)
      [] op \in {"get_service_ip", "service_ip"} -> get_service_ip_return(result)

----------------------------------------------------------------------------
(* create_bill: the hosted-bill (SCI) flow *)

\* the signature of lines 503-530
create_bill_signature(self, args, use_md5) ==
    IF use_md5
    THEN Digest("md5",
                Str(args["currency"]) \o ":" \o Str(args["amount"]) \o ":"
                   \o Str(PyOr(args["project_secret"], self.project_secret)) \o ":"
                   \o Str(PyOr(args["project_id"], self.project_id)) \o ":"
                   \o Str(args["pay_id"]))
    ELSE Digest("sha256",
                Str(PyOr(args["project_id"], self.project_id)) \o ":"
                   \o Str(args["pay_id"]) \o ":" \o Str(args["amount"]) \o ":"
                   \o Str(args["currency"]) \o ":" \o Str(args["description"]) \o ":"
                   \o Str(args["success_url"]) \o ":" \o Str(args["fail_url"]) \o ":"
                   \o Str(PyOr(args["project_secret"], self.project_secret)))

\* the params dict of lines 532-546: **kwargs comes last
create_bill_params(self, args, use_md5, kwargs) ==
    Merge([k \in {"merchant_id", "pay_id", "amount", "currency", "desc", "method",
                  "email", "phone", "success_url", "fail_url", "lang", "sign"} |->
              CASE k = "merchant_id" -> PyOr(args["project_id"], self.project_id)
                [] k = "desc" -> args["description"]
                [] k = "sign" -> create_bill_signature(self, args, use_md5)
                [] OTHER -> args[k]],
          kwargs)

\* the GET of lines 547-555
create_bill_send(self, args, use_md5, kwargs) ==
    [client |-> "session",
     url |-> "https://anypay.io/merchant",
     params |-> DropNone(create_bill_params(self, args, use_md5, kwargs)),
     headers |-> self.session.headers,
     timeout |-> self.session.timeout]

\* str(response.url): the URL the request was sent to, with its query
ResponseUrl(request) == [base |-> request.url, query |-> request.params]

create_bill_return_checked(args, request, http) ==
    LET check == _check_response(http.json)
    IN  IF check.kind = "raise" THEN check
        ELSE Bill([k \in {"pay_id", "payment_url"} |->
                      IF k = "pay_id" THEN args["pay_id"] ELSE ResponseUrl(request)])

\* line 557: the response's content is not read
create_bill_return(args, request, http) ==
    Bill([k \in {"pay_id", "payment_url"} |->
             IF k = "pay_id" THEN args["pay_id"] ELSE ResponseUrl(request)])

----------------------------------------------------------------------------
(* A call by a caller: d names the operation and holds its arguments.      *)

\* a non-blocking operation up to its await: the request sent, or the
\* exception raised before anything is sent (Python refuses a third
\* positional argument to _make_request_async with a TypeError)
AsyncStart(self, d) ==
    CASE d.op = "_make_request_async" ->
            _make_request_async_send(self, d.endpoint, d.tpl, d.args)
      [] d.op = "create_bill" ->
            [request |-> create_bill_send(self, d.args, d.md5, d.kwargs),
             raised |-> NoValue]
      [] OTHER ->
            LET call == FacadeCall(self, d.op, d.args)
            IN  IF call.npos > 2
                THEN [request |-> NoRequest, raised |-> Raise("TypeError")]
                ELSE _make_request_async_send(self, call.endpoint,
                                              call.sign_template, call.params)

\* a non-blocking operation from its await on
AsyncFinish(task, http) ==
    CASE task.op = "_make_request_async" -> _make_request_async_result(http)
      [] task.op = "create_bill" -> create_bill_return(task.args, task.request, http)
      [] OTHER ->
            LET result == _make_request_async_result(http)
            IN  IF result.kind = "raise" THEN result
                ELSE FacadeReturn(task.op, result.value)

\* a blocking operation: _make_request itself, or one of the properties
SyncCall(self, d, http) ==
    IF d.op = "_make_request"
    THEN _make_request(self, d.endpoint, d.tpl, d.args, http)
    ELSE LET call == FacadeCall(self, d.op, d.args)
             done == _make_request(self, call.endpoint, call.sign_template,
                                   call.params, http)
         IN  IF done.outcome.kind = "raise" THEN done
             ELSE [request |-> done.request,
                   outcome |-> FacadeReturn(d.op, done.outcome.value)]

----------------------------------------------------------------------------
(* Input domains *)

MaxTasks == 2

Tasks == 1 .. MaxTasks

\* all mappings from a subset of keys to vals
MapsOver(keys, vals) == UNION {[K -> vals] : K \in SUBSET keys}

ApiIds == {"X"}

ApiKeys == {"Y"}

ProjectIds == {None, PyInt(10)}

ProjectSecrets == {None, PyStr("secret")}

ErrorObject == [k \in {"code", "message"} |->
                   IF k = "code" THEN PyInt(401) ELSE PyStr("bad sign")]

\* {"result": result}
OkBody(result) == [k \in {"result"} |-> result]

\* {"error": {"code": 401, "message": "bad sign"}}
ErrorBody == [k \in {"error"} |-> ErrorObject]

\* a body carrying both keys
BothBody(result) ==
    [k \in {"error", "result"} |-> IF k = "error" THEN ErrorObject ELSE result]

IpResult == [k \in {"ip"} |-> PyList(<<PyStr("185.162.128.38")>>)]

Http(status, body) == [status |-> status, json |-> body]

NoResponse == [status |-> 0, json |-> EmptyMap]

ProbeResponses ==
    {Http(200, OkBody(IpResult)), Http(401, ErrorBody), Http(200, ErrorBody),
     Http(200, BothBody(IpResult)), Http(200, EmptyMap)}

SignMethods == {"balance", "commissions"}

SignTemplates ==
    {<<>>, <<Ph("project_id")>>, <<Ph("amount"), Lit(":"), Ph("project_id")>>}

SignParams ==
    MapsOver({"project_id", "amount"}, {None, PyInt(42), PyStr("RUB")})

Desc(op, endpoint, tpl, args, kwargs, md5) ==
    [op |-> op, endpoint |-> endpoint, tpl |-> tpl, args |-> args,
     kwargs |-> kwargs, md5 |-> md5]

\* a facade method called with keyword arguments args
Method(op, args) == Desc(op, "", <<>>, args, EmptyMap, FALSE)

DispatchParams ==
    MapsOver({"project_id", "offset", "sign"},
             {None, PyInt(0), PyStr(""), PyInt(42)})

DispatchCalls(op) ==
    {Desc(op, "payments", tpl, params, EmptyMap, FALSE) :
        tpl \in {<<>>, <<Ph("project_id")>>}, params \in DispatchParams}

BalanceResult == [k \in {"balance"} |-> PyFloat("100.5")]

DispatchResponses ==
    {Http(200, OkBody(BalanceResult)), Http(200, ErrorBody), Http(401, ErrorBody),
     Http(200, BothBody(BalanceResult)), Http(200, EmptyMap)}

RatesResult == [k \in {"in", "out"} |-> PyDict(<<>>)]

PaymentFields(n) ==
    [k \in {"pay_id", "transaction_id", "status", "method", "amount", "currency",
            "profit", "email", "desc", "date"} |->
        CASE k = "pay_id" -> PyInt(n)
          [] k = "transaction_id" -> PyInt(1000 + n)
          [] k \in {"amount", "profit"} -> PyInt(100)
          [] OTHER -> PyStr(k)]

PayoutFields(n) ==
    [k \in {"payout_id", "transaction_id", "payout_type", "status", "amount",
            "commission", "commission_type", "wallet", "date", "complete_date"} |->
        CASE k = "payout_id" -> PyInt(n)
          [] k = "transaction_id" -> PyInt(2000 + n)
          [] k \in {"amount", "commission", "wallet"} -> PyInt(100)
          [] OTHER -> PyStr(k)]

Entry(key, fields) == [key |-> key, val |-> fields]

\* the values a collection field takes
Collections(fields(_)) ==
    {None, PyList(<<>>), PyDict(<<>>),
     PyDict(<<Entry("1", fields(1))>>),
     PyDict(<<Entry("1", fields(1)), Entry("2", fields(2))>>)}

FacadeResults ==
    {BalanceResult, RatesResult, IpResult, PayoutFields(7), EmptyMap}
       \cup {[k \in {"payments"} |-> c] : c \in Collections(PaymentFields)}
       \cup {[k \in {"payouts"} |-> c] : c \in Collections(PayoutFields)}

FacadeResponses ==
    {Http(200, OkBody(r)) : r \in FacadeResults}
       \cup {Http(200, ErrorBody), Http(401, ErrorBody)}

NoArgs == EmptyMap

CommissionsArgs == {[k \in {"project_id"} |-> p] : p \in {None, PyInt(0), PyInt(42)}}

PaymentsArgs ==
    {[k \in {"project_id", "transaction_id", "pay_id", "offset"} |->
         CASE k = "project_id" -> p [] k = "pay_id" -> q
           [] k = "offset" -> PyInt(0) [] OTHER -> None] :
        p \in {None, PyInt(42)}, q \in {None, PyInt(55)}}

PayoutsArgs ==
    {[k \in {"transaction_id", "payout_id", "offset"} |->
         CASE k = "payout_id" -> q [] k = "offset" -> PyInt(0) [] OTHER -> None] :
        q \in {None, PyInt(7)}}

CreatePayoutArgs ==
    {[k \in {"payout_id", "payout_type", "amount", "wallet", "wallet_currency",
             "commission_type", "status_url"} |->
         CASE k = "payout_id" -> PyInt(7) [] k = "payout_type" -> PyStr("qiwi")
           [] k = "amount" -> PyInt(100) [] k = "wallet" -> PyStr("79001234567")
           [] k = "commission_type" -> c [] OTHER -> None] :
        c \in {None, PyStr("balance")}}

CreatePaymentArgs ==
    {[k \in {"project_id", "pay_id", "amount", "currency", "desc", "method",
             "method_currency", "email", "phone", "tail", "success_url",
             "fail_url", "lang"} |->
         CASE k = "project_id" -> p [] k = "pay_id" -> PyInt(55)
           [] k = "amount" -> PyInt(100) [] k = "currency" -> PyStr("RUB")
           [] k = "desc" -> PyStr("") [] k = "method" -> PyStr("card")
           [] k = "email" -> PyStr("a@b.c") [] OTHER -> None] :
        p \in {None, PyInt(42)}}

BillArgs(project_ids, secrets, urls) ==
    {[k \in {"pay_id", "amount", "project_id", "project_secret", "currency",
             "description", "method", "email", "phone", "success_url",
             "fail_url", "lang"} |->
         CASE k = "pay_id" -> PyInt(55) [] k = "amount" -> PyInt(100)
           [] k = "project_id" -> p [] k = "project_secret" -> x
           [] k = "currency" -> PyStr("RUB") [] k = "description" -> PyStr("Payment")
           [] k = "success_url" -> u [] OTHER -> None] :
        p \in project_ids, x \in secrets, u \in urls}

\* **kwargs of create_bill: keys that are not names of its parameters
BillKwargs ==
    {EmptyMap, [k \in {"sign"} |-> PyStr("forged")], [k \in {"note"} |-> PyStr("x")],
     [k \in {"merchant_id"} |-> PyInt(999)], [k \in {"sign"} |-> None]}

BillCalls ==
    {Desc("create_bill", "", <<>>, a, kw, md5) :
        a \in BillArgs({None, PyInt(0), PyInt(42)}, {None, PyStr(""), PyStr("key")},
                       {None, PyStr("https://ok")}),
        kw \in BillKwargs, md5 \in BOOLEAN}

FacadeCalls ==
    {Method(op, NoArgs) : op \in {"get_balance", "get_convertion_rates", "get_service_ip"}}
       \cup {Method("get_commissions", a) : a \in CommissionsArgs}
       \cup {Method("get_payments", a) : a \in PaymentsArgs}
       \cup {Method("get_payouts", a) : a \in PayoutsArgs}
       \cup {Method("create_payout", a) : a \in CreatePayoutArgs}
       \cup {Method("create_payment", a) : a \in CreatePaymentArgs}
       \cup BillCalls

PropertyCalls ==
    {Method(op, NoArgs) : op \in {"balance", "convertion_rates", "commissions", "service_ip"}}

ConcurrentCalls ==
    {Method("get_balance", NoArgs), Method("create_payment", CHOOSE a \in CreatePaymentArgs : a["project_id"] = None)}
       \cup {Method("get_commissions", a) : a \in {b \in CommissionsArgs : b["project_id"] # PyInt(0)}}
       \cup {Desc("create_bill", "", <<>>, a, EmptyMap, TRUE) :
                a \in BillArgs({None, PyInt(42)}, {None}, {None})}

ConcurrentResponses ==
    {Http(200, OkBody(BalanceResult)), Http(401, ErrorBody)}

----------------------------------------------------------------------------
(* State: the facade instance, what its construction did, and the calls of *)
(* the callers' tasks.                                                     *)

IdleTask ==
    [pc |-> "idle", op |-> "", endpoint |-> "", tpl |-> <<>>, args |-> EmptyMap,
     kwargs |-> EmptyMap, md5 |-> FALSE, request |-> NoRequest,
     response |-> NoResponse, outcome |-> NoValue]

NoProbe ==
    [check |-> FALSE, requests |-> <<>>, response |-> NoResponse,
     outcome |-> NoValue]

Init ==
    /\ inst = NoInstance
    /\ probe = NoProbe
    /\ tasks = [t \in Tasks |-> IdleTask]

CredentialCheckAlways(self, check, response) ==
    _make_request(self, "ip-notification", <<>>, EmptyMap, response)

\* lines 59-62 of __init__: the request made and how the call ended
CredentialCheck(self, check, response) ==
    IF check THEN _make_request(self, "ip-notification", <<>>, EmptyMap, response)
    ELSE [request |-> NoRequest, outcome |-> Return(EmptyMap)]

\* AnyPayAPI.__init__: an exception of the credential check leaves no instance
Construct ==
    /\ inst.phase # "ready"
    /\ \E api_id \in ApiIds, api_key \in ApiKeys, project_id \in ProjectIds,
          project_secret \in ProjectSecrets, use_md5 \in BOOLEAN,
          check \in BOOLEAN, response \in ProbeResponses :
          LET self == NewInstance(api_id, api_key, project_id, project_secret, use_md5)
              call == CredentialCheck(self, check, response)
          IN  /\ probe' = [check |-> check,
                           requests |-> IF call.request = NoRequest THEN <<>>
                                        ELSE <<call.request>>,
                           response |-> IF call.request = NoRequest THEN NoResponse
                                        ELSE response,
                           outcome |-> call.outcome]
              /\ inst' = IF call.outcome.kind = "raise"
                         THEN [NoInstance EXCEPT !.phase = "failed"]
                         ELSE self
    /\ UNCHANGED tasks

SelfKeepsProject(self, d) ==
    IF "project_id" \in DOMAIN d.args /\ d.args["project_id"] # None
    THEN [self EXCEPT !.project_id = d.args["project_id"]]
    ELSE self

\* the instance after a call on it: no method assigns to self
SelfAfterCall(self, d) == self

\* a caller applies _form_signature
CallFormSignature ==
    /\ inst.phase = "ready"
    /\ tasks[1].pc = "idle"
    /\ \E method \in SignMethods, template \in SignTemplates,
          params \in SignParams, use_md5 \in BOOLEAN :
          tasks' = [tasks EXCEPT ![1] =
                       [IdleTask EXCEPT !.pc = "done", !.op = "_form_signature",
                                        !.endpoint = method, !.tpl = template,
                                        !.args = params, !.md5 = use_md5,
                                        !.outcome = _form_signature(
                                            inst, method, template, params, use_md5)]]
    /\ UNCHANGED <<inst, probe>>

TaskOf(d) ==
    [IdleTask EXCEPT !.op = d.op, !.endpoint = d.endpoint, !.tpl = d.tpl,
                     !.args = d.args, !.kwargs = d.kwargs, !.md5 = d.md5]

\* task t makes a blocking call and gets its response
CallSync(t, calls, responses) ==
    /\ inst.phase = "ready"
    /\ tasks[t].pc = "idle"
    /\ \E d \in calls, http \in responses :
          LET done == SyncCall(inst, d, http)
          IN /\ tasks' = [tasks EXCEPT ![t] =
                           [TaskOf(d) EXCEPT !.pc = "done",
                                             !.request = done.request,
                                             !.response = IF done.request = NoRequest
                                                          THEN NoResponse ELSE http,
                                             !.outcome = done.outcome]]
             /\ inst' = SelfAfterCall(inst, d)
    /\ UNCHANGED probe

\* task t starts a non-blocking call: it runs up to the await of session.get
Start(t, calls) ==
    /\ inst.phase = "ready"
    /\ tasks[t].pc = "idle"
    /\ \E d \in calls :
          LET sent == AsyncStart(inst, d)
          IN /\ tasks' = [tasks EXCEPT ![t] =
                           IF sent.raised.kind = "raise"
                           THEN [TaskOf(d) EXCEPT !.pc = "done",
                                                  !.outcome = sent.raised]
                           ELSE [TaskOf(d) EXCEPT !.pc = "awaiting",
                                                  !.request = sent.request]]
             /\ inst' = SelfAfterCall(inst, d)
    /\ UNCHANGED probe

\* the response of task t's request arrives and the call runs to its end
Receive(t, responses) ==
    /\ tasks[t].pc = "awaiting"
    /\ \E http \in responses :
          tasks' = [tasks EXCEPT ![t] =
                       [@ EXCEPT !.pc = "done", !.response = http,
                                 !.outcome = AsyncFinish(tasks[t], http)]]
    /\ UNCHANGED <<inst, probe>>

NextSign == Construct \/ CallFormSignature

SpecSign == Init /\ [][NextSign]_vars

NextDispatch ==
    \/ Construct
    \/ CallSync(1, DispatchCalls("_make_request"), DispatchResponses)
    \/ Start(1, DispatchCalls("_make_request_async"))
    \/ Receive(1, DispatchResponses)

SpecDispatch == Init /\ [][NextDispatch]_vars

NextFacade ==
    \/ Construct
    \/ CallSync(1, PropertyCalls, FacadeResponses)
    \/ Start(1, FacadeCalls)
    \/ Receive(1, FacadeResponses)

SpecFacade == Init /\ [][NextFacade]_vars

\* concurrent non-blocking calls on one instance
Next ==
    \/ Construct
    \/ \E t \in Tasks : Start(t, ConcurrentCalls)
    \/ \E t \in Tasks : Receive(t, ConcurrentResponses)

Spec == Init /\ [][Next]_vars

\* the dispatchers called directly and through the methods whose sign
\* template names a parameter
SignedCalls ==
    {Method("get_commissions", a) : a \in CommissionsArgs}
       \cup {Method("get_payments", a) : a \in PaymentsArgs}
       \cup {Method("create_payout", a) : a \in CreatePayoutArgs}

NextSigned ==
    \/ Construct
    \/ CallSync(1, DispatchCalls("_make_request") \cup PropertyCalls, DispatchResponses)
    \/ Start(1, DispatchCalls("_make_request_async") \cup SignedCalls)
    \/ Receive(1, DispatchResponses)

SpecSigned == Init /\ [][NextSigned]_vars

----------------------------------------------------------------------------
(* C1 *)

\* the text a template yields, segment by segment
SegText(template, n, params) ==
    IF n > Len(template) THEN ""
    ELSE IF template[n].k = "lit" THEN template[n].v
    ELSE Str(params[template[n].v])

TemplateKeys(template) ==
    {template[n].v : n \in {m \in DOMAIN template : template[m].k = "key"}}

Signed(t) == t.op = "_form_signature" /\ t.pc = "done"

\* C1: _form_signature returns the digest of endpoint + api_id + (template
\* with each %(key)s replaced by str of params[key]) + api_key, SHA-256 when
\* use_md5 is false and MD5 when it is true; sign("balance", "", {}) under
\* api_id "X", api_key "Y" hashes "balanceXY", and commissions with
\* project_id=42 hashes "commissions" + api_id + "42" + api_key.
C1_SignatureText ==
    \A t \in Tasks :
        LET c == tasks[t]
        IN  Signed(c) =>
              /\ TemplateKeys(c.tpl) \subseteq DOMAIN c.args =>
                    c.outcome =
                       Return(Digest(IF c.md5 THEN "md5" ELSE "sha256",
                                     c.endpoint \o inst.api_id
                                        \o SegText(c.tpl, 1, c.args)
                                        \o SegText(c.tpl, 2, c.args)
                                        \o SegText(c.tpl, 3, c.args)
                                        \o inst.api_key))
              /\ (c.endpoint = "balance" /\ c.tpl = <<>> /\ c.args = EmptyMap
                    /\ ~c.md5 /\ inst.api_id = "X" /\ inst.api_key = "Y") =>
                    c.outcome.value = Digest("sha256", "balanceXY")
              /\ (c.endpoint = "commissions" /\ c.tpl = <<Ph("project_id")>>
                    /\ "project_id" \in DOMAIN c.args
                    /\ c.args["project_id"] = PyInt(42)) =>
                    c.outcome.value.s =
                       "commissions" \o inst.api_id \o "42" \o inst.api_key

\* a three-segment template signed with MD5 over non-null parameters
C1_Witness ==
    \E t \in Tasks :
        /\ Signed(tasks[t])
        /\ tasks[t].md5
        /\ Len(tasks[t].tpl) = 3
        /\ tasks[t].outcome = Return(Digest("md5", "commissionsXRUB:42Y"))

----------------------------------------------------------------------------
(* C2 *)

DispatcherOps == {"_make_request", "_make_request_async"}

\* a dispatcher call that sent its request and ran to its end
Dispatched(c) == c.op \in DispatcherOps /\ c.pc = "done" /\ c.request # NoRequest

\* C2: a parsed body with an `error` key, whatever else it holds and whatever
\* the HTTP status, makes both dispatchers raise AnyPayAPIError with the error
\* object's code and message and return nothing; a body without it raises no
\* AnyPayAPIError and its `result` is what is returned.
C2_ErrorKeyRaises ==
    \A t \in Tasks :
        LET c == tasks[t]
            body == c.response.json
        IN  Dispatched(c) =>
              /\ "error" \in DOMAIN body =>
                    /\ c.outcome.kind = "raise"
                    /\ c.outcome.exc = "AnyPayAPIError"
                    /\ c.outcome.code = body["error"]["code"]
                    /\ c.outcome.message = body["error"]["message"]
              /\ body = ErrorBody =>
                    c.outcome.code = PyInt(401) /\ c.outcome.message = PyStr("bad sign")
              /\ "error" \notin DOMAIN body =>
                    /\ c.outcome.exc # "AnyPayAPIError"
                    /\ "result" \in DOMAIN body => c.outcome = Return(body["result"])

\* the non-blocking dispatcher got status 200 and a body with both keys
C2_Witness ==
    \E t \in Tasks :
        /\ Dispatched(tasks[t])
        /\ tasks[t].op = "_make_request_async"
        /\ tasks[t].response = Http(200, BothBody(BalanceResult))
        /\ tasks[t].outcome.exc = "AnyPayAPIError"
        /\ tasks[t].outcome.code = PyInt(401)

----------------------------------------------------------------------------
(* C3 *)

NonNullKeys(params) == {k \in DOMAIN params : params[k] # None}

\* C3: the query-string keys a dispatcher sends are exactly `sign` and the
\* keys of params whose value is not None, each kept key with its own value
\* (0 and the empty string are kept).
C3_NullFilter ==
    \A t \in Tasks :
        LET c == tasks[t]
        IN  (c.op \in DispatcherOps /\ c.request # NoRequest) =>
              /\ DOMAIN c.request.params = {"sign"} \cup NonNullKeys(c.args)
              /\ \A k \in NonNullKeys(c.args) : c.request.params[k] = c.args[k]

\* the blocking dispatcher dropped a None and kept a 0 and an empty string
C3_Witness ==
    \E t \in Tasks :
        /\ tasks[t].op = "_make_request"
        /\ tasks[t].request # NoRequest
        /\ DOMAIN tasks[t].args = {"project_id", "offset", "sign"}
        /\ tasks[t].args["sign"] = None
        /\ tasks[t].args["project_id"] = PyInt(0)
        /\ tasks[t].args["offset"] = PyStr("")
        /\ DOMAIN tasks[t].request.params = {"sign", "project_id", "offset"}
        /\ tasks[t].request.params["sign"].t \in {"sha256", "md5"}

----------------------------------------------------------------------------
(* C9 *)

\* what the other dispatcher does on the inputs and the response of call c
Counterpart(c) ==
    IF c.op = "_make_request"
    THEN _make_request_async(inst, c.endpoint, c.tpl, c.args, c.response)
    ELSE _make_request(inst, c.endpoint, c.tpl, c.args, c.response)

SameRequest(a, b) ==
    /\ a.url = b.url
    /\ a.params = b.params
    /\ a.headers = b.headers
    /\ a.timeout = b.timeout

\* C9: on the same instance, endpoint, template, params and response the
\* blocking and the non-blocking dispatcher send the same URL, query
\* parameters, headers and 60-second timeout and end with the same outcome.
C9_SameSemantics ==
    \A t \in Tasks :
        LET c == tasks[t]
        IN  (c.op \in DispatcherOps /\ c.pc = "done") =>
              /\ SameRequest(Counterpart(c).request, c.request)
              /\ Counterpart(c).outcome = c.outcome
              /\ c.request # NoRequest => c.request.timeout = 60

\* a non-blocking call that dropped a None parameter and was answered by an error
C9_Witness ==
    \E t \in Tasks :
        /\ Dispatched(tasks[t])
        /\ tasks[t].op = "_make_request_async"
        /\ \E k \in DOMAIN tasks[t].args : tasks[t].args[k] = None
        /\ tasks[t].request.headers = HEADERS
        /\ tasks[t].outcome.exc = "AnyPayAPIError"

----------------------------------------------------------------------------
(* C4 *)

\* a list method answered by a body with a `result` and no `error`
Listed(c) ==
    /\ c.op \in {"get_payments", "get_payouts"}
    /\ c.pc = "done"
    /\ DOMAIN c.response.json = {"result"}

CollectionKey(op) == IF op = "get_payments" THEN "payments" ELSE "payouts"

\* C4: get_payments and get_payouts return an empty sequence, raising nothing,
\* when the collection field of a successful response is empty or absent, and
\* one typed record per entry when it is a non-empty keyed mapping.
C4_EmptyOrAbsentCollection ==
    \A t \in Tasks :
        LET c == tasks[t]
            result == c.response.json["result"]
            key == CollectionKey(c.op)
        IN  Listed(c) =>
              /\ (key \notin DOMAIN result \/ ~Truthy(result[key])) =>
                    c.outcome = Return(<<>>)
              /\ (key \in DOMAIN result /\ result[key].t = "dict"
                    /\ result[key].items # <<>>) =>
                    /\ c.outcome.kind = "return"
                    /\ Len(c.outcome.value) = Len(result[key].items)

\* the part of C4 the code keeps: a collection field that is present
C4_PresentCollection ==
    \A t \in Tasks :
        LET c == tasks[t]
            result == c.response.json["result"]
            key == CollectionKey(c.op)
        IN  (Listed(c) /\ key \in DOMAIN result) =>
              /\ ~Truthy(result[key]) => c.outcome = Return(<<>>)
              /\ (result[key].t = "dict" /\ result[key].items # <<>>) =>
                    /\ c.outcome.kind = "return"
                    /\ Len(c.outcome.value) = Len(result[key].items)

----------------------------------------------------------------------------
(* C5 *)

AsyncMethods ==
    {"get_balance", "get_convertion_rates", "get_commissions", "create_payment",
     "get_payments", "create_payout", "get_payouts", "get_service_ip"}

\* the interface table: a method's endpoint
TableEndpoint(op) ==
    CASE op \in {"get_balance", "balance"} -> "balance"
      [] op \in {"get_convertion_rates", "convertion_rates"} -> "rates"
      [] op \in {"get_commissions", "commissions"} -> "commissions"
      [] op = "create_payment" -> "create-payment"
      [] op = "get_payments" -> "payments"
      [] op = "create_payout" -> "create-payout"
      [] op = "get_payouts" -> "payouts"
      [] op \in {"get_service_ip", "service_ip"} -> "ip-notification"

\* the interface table: the keys of a method's sign template, in order
TableTemplate(op) ==
    CASE op \in {"get_commissions", "commissions", "get_payments"} -> <<"project_id">>
      [] op = "create_payment" -> <<"project_id", "amount", "currency", "desc", "method">>
      [] op = "create_payout" -> <<"payout_id", "payout_type", "amount", "wallet">>
      [] OTHER -> <<>>

\* the text signed for keys taken in order from the parameters sent; a
\* parameter left out of the query string was None
RECURSIVE TableText(_, _)
TableText(keys, sent) ==
    IF keys = <<>> THEN ""
    ELSE (IF Head(keys) \in DOMAIN sent THEN Str(sent[Head(keys)]) ELSE "None")
            \o TableText(Tail(keys), sent)

SignedPerTable(c) ==
    /\ c.request # NoRequest
    /\ c.request.url = "https://anypay.io/api/" \o TableEndpoint(c.op) \o "/" \o inst.api_id
    /\ c.request.params["sign"] =
          Digest(IF inst.use_md5 THEN "md5" ELSE "sha256",
                 TableEndpoint(c.op) \o inst.api_id
                    \o TableText(TableTemplate(c.op), c.request.params)
                    \o inst.api_key)

\* C5: every facade operation dispatches one signed GET to the endpoint the
\* interface table names for it, signed with that endpoint's template, and
\* create_payment then returns a Bill built from the result.
C5_FacadeDispatch ==
    \A t \in Tasks :
        LET c == tasks[t]
        IN  (c.op \in AsyncMethods \cup {"balance", "convertion_rates",
                                        "commissions", "service_ip"}
               /\ c.pc # "idle") =>
              /\ SignedPerTable(c)
              /\ (c.op = "create_payment" /\ c.pc = "done"
                    /\ DOMAIN c.response.json = {"result"}
                    /\ {"pay_id", "payment_url"} \subseteq DOMAIN c.response.json["result"]) =>
                    c.outcome.kind = "return"

\* the part of C5 the code keeps: every operation but create_payment
C5_FacadeDispatchButCreatePayment ==
    \A t \in Tasks :
        LET c == tasks[t]
        IN  (c.op \in (AsyncMethods \ {"create_payment"})
                         \cup {"balance", "convertion_rates", "commissions", "service_ip"}
               /\ c.pc # "idle") =>
              SignedPerTable(c)

----------------------------------------------------------------------------
(* C6 *)

\* C6: construction with check issues exactly one request, to ip-notification
\* and signed, before it completes, and an error object in the answer makes
\* it raise AnyPayAPIError and leave no facade; construction without check
\* issues no request and succeeds.
C6_CredentialProbe ==
    inst.phase # "none" =>
      /\ probe.check =>
            /\ Len(probe.requests) = 1
            /\ \E id \in ApiIds, key \in ApiKeys :
                  /\ probe.requests[1].url = "https://anypay.io/api/ip-notification/" \o id
                  /\ probe.requests[1].params["sign"].s = "ip-notification" \o id \o key
            /\ "error" \in DOMAIN probe.response.json =>
                  /\ inst.phase = "failed"
                  /\ probe.outcome.exc = "AnyPayAPIError"
            /\ DOMAIN probe.response.json = {"result"} => inst.phase = "ready"
      /\ ~probe.check =>
            /\ probe.requests = <<>>
            /\ inst.phase = "ready"

\* a construction whose probe was answered by an error object
C6_Witness ==
    /\ probe.check
    /\ Len(probe.requests) = 1
    /\ probe.response = Http(200, ErrorBody)
    /\ inst.phase = "failed"

----------------------------------------------------------------------------
(* C7 *)

Billed(c) == c.op = "create_bill" /\ c.pc # "idle"

\* the argument if it was given, else the instance's value
Given(arg, own) == IF arg # None THEN arg ELSE own

\* C7: create_bill signs, with use_md5, the MD5 of
\* currency:amount:projectSecret:projectId:payId and otherwise the SHA-256 of
\* projectId:payId:amount:currency:description:successUrl:failUrl:projectSecret,
\* projectId and projectSecret being the call's arguments if given and the
\* instance's values otherwise, an absent value written "None".
C7_BillSignature ==
    \A t \in Tasks :
        LET c == tasks[t]
            a == c.args
            project == Str(Given(a["project_id"], inst.project_id))
            secret == Str(Given(a["project_secret"], inst.project_secret))
        IN  (Billed(c) /\ "sign" \notin DOMAIN c.kwargs) =>
              c.request.params["sign"] =
                 IF c.md5
                 THEN Digest("md5",
                             Str(a["currency"]) \o ":" \o Str(a["amount"]) \o ":"
                                \o secret \o ":" \o project \o ":" \o Str(a["pay_id"]))
                 ELSE Digest("sha256",
                             project \o ":" \o Str(a["pay_id"]) \o ":"
                                \o Str(a["amount"]) \o ":" \o Str(a["currency"]) \o ":"
                                \o Str(a["description"]) \o ":"
                                \o Str(a["success_url"]) \o ":"
                                \o Str(a["fail_url"]) \o ":" \o secret)

\* the part of C7 the code keeps: arguments that are None, or neither 0 nor ""
C7_BillSignatureTruthyArgs ==
    \A t \in Tasks :
        LET c == tasks[t]
            a == c.args
            project == Str(Given(a["project_id"], inst.project_id))
            secret == Str(Given(a["project_secret"], inst.project_secret))
        IN  (Billed(c) /\ "sign" \notin DOMAIN c.kwargs
               /\ a["project_id"] # PyInt(0) /\ a["project_secret"] # PyStr("")) =>
              c.request.params["sign"] =
                 IF c.md5
                 THEN Digest("md5",
                             Str(a["currency"]) \o ":" \o Str(a["amount"]) \o ":"
                                \o secret \o ":" \o project \o ":" \o Str(a["pay_id"]))
                 ELSE Digest("sha256",
                             project \o ":" \o Str(a["pay_id"]) \o ":"
                                \o Str(a["amount"]) \o ":" \o Str(a["currency"]) \o ":"
                                \o Str(a["description"]) \o ":"
                                \o Str(a["success_url"]) \o ":"
                                \o Str(a["fail_url"]) \o ":" \o secret)

----------------------------------------------------------------------------
(* C8 *)

\* the merchant parameter a create_bill argument is sent as
BillParamOf(k) == IF k = "description" THEN "desc" ELSE k

\* C8: whatever project_id and project_secret are and whatever the remote
\* answers, create_bill raises nothing and returns a Bill with the caller's
\* pay_id as id, no transaction_id, status `waiting` and the merchant URL
\* whose query holds exactly the non-null parameters.
C8_BillNeverRaises ==
    \A t \in Tasks :
        LET c == tasks[t]
            bill == c.outcome.value
            passed == {"pay_id", "amount", "currency", "description", "method",
                       "email", "phone", "success_url", "fail_url", "lang"}
        IN  (Billed(c) /\ c.pc = "done") =>
              /\ c.outcome.kind = "return"
              /\ bill.id = c.args["pay_id"]
              /\ bill.transaction_id = None
              /\ bill.status = PyStr("waiting")
              /\ bill.url.base = "https://anypay.io/merchant"
              /\ \A k \in DOMAIN bill.url.query : bill.url.query[k] # None
              /\ \A k \in DOMAIN c.kwargs :
                    /\ k \in DOMAIN bill.url.query <=> c.kwargs[k] # None
                    /\ c.kwargs[k] # None => bill.url.query[k] = c.kwargs[k]
              /\ \A k \in passed :
                    BillParamOf(k) \notin DOMAIN c.kwargs =>
                       /\ BillParamOf(k) \in DOMAIN bill.url.query <=> c.args[k] # None
                       /\ c.args[k] # None => bill.url.query[BillParamOf(k)] = c.args[k]
              /\ DOMAIN bill.url.query \subseteq
                    {BillParamOf(k) : k \in passed} \cup {"merchant_id", "sign"}
                       \cup DOMAIN c.kwargs
              /\ "sign" \notin DOMAIN c.kwargs => "sign" \in DOMAIN bill.url.query

\* a bill made with no project_id and no project_secret anywhere, answered by
\* an error object
C8_Witness ==
    \E t \in Tasks :
        /\ Billed(tasks[t])
        /\ tasks[t].pc = "done"
        /\ tasks[t].response = Http(401, ErrorBody)
        /\ tasks[t].args["project_id"] = None
        /\ tasks[t].args["project_secret"] = None
        /\ inst.project_id = None
        /\ inst.project_secret = None
        /\ tasks[t].outcome.kind = "return"
        /\ "merchant_id" \notin DOMAIN tasks[t].outcome.value.url.query

----------------------------------------------------------------------------
(* C10 *)

Started(c) == c.pc # "idle"

SameCall(a, b) ==
    /\ a.op = b.op
    /\ a.args = b.args
    /\ a.kwargs = b.kwargs
    /\ a.md5 = b.md5

\* calls with the same arguments send the same request, and with the same
\* response end the same way, whatever the other calls in flight are
Independent ==
    \A t1, t2 \in Tasks :
        LET a == tasks[t1]
            b == tasks[t2]
        IN  (Started(a) /\ Started(b) /\ SameCall(a, b)) =>
              /\ a.request = b.request
              /\ (a.pc = "done" /\ b.pc = "done" /\ a.response = b.response) =>
                    a.outcome = b.outcome

\* C10: under any interleaving of non-blocking calls on one instance no call,
\* returning or raising, changes api_id, api_key, project_id, project_secret,
\* use_md5 or the session, and a call's request and outcome depend on its own
\* arguments and response only.
C10_CallsAreIndependent ==
    /\ [][inst.phase = "ready" => inst' = inst]_vars
    /\ []Independent

\* two calls with the same arguments in flight together: one has raised, the
\* other has returned
C10_Witness ==
    \E t1, t2 \in Tasks :
        /\ t1 # t2
        /\ SameCall(tasks[t1], tasks[t2])
        /\ tasks[t1].op = "get_commissions"
        /\ tasks[t1].outcome.exc = "AnyPayAPIError"
        /\ tasks[t2].outcome.kind = "return"
        /\ inst.phase = "ready"

----------------------------------------------------------------------------
(* C11 *)

TemplatedOps ==
    DispatcherOps \cup {"get_commissions", "commissions", "get_payments", "create_payout"}

\* the endpoint a call signs for
SignedEndpoint(c) == IF c.op \in DispatcherOps THEN c.endpoint ELSE TableEndpoint(c.op)

\* the parameters its sign template names, in order
SignedKeys(c) ==
    IF c.op \in DispatcherOps THEN [n \in DOMAIN c.tpl |-> c.tpl[n].v]
    ELSE TableTemplate(c.op)

\* the value the caller's code hands the dispatcher for a templated parameter
Passed(c, k) ==
    CASE c.op = "commissions" -> inst.project_id
      [] c.op \in {"get_commissions", "get_payments"} /\ k = "project_id" ->
            IF Truthy(c.args[k]) THEN c.args[k] ELSE inst.project_id
      [] OTHER -> c.args[k]

\* the text of the templated parameters as handed over: None reads "None"
RECURSIVE PassedText(_, _)
PassedText(c, keys) ==
    IF keys = <<>> THEN ""
    ELSE Str(Passed(c, Head(keys))) \o PassedText(c, Tail(keys))

Range(seq) == {seq[n] : n \in DOMAIN seq}

\* a call whose request carries the signature the dispatcher computed
SentSigned(c) ==
    /\ c.op \in TemplatedOps
    /\ c.request # NoRequest
    /\ c.op \in DispatcherOps => "sign" \notin NonNullKeys(c.args)

\* C11: the dispatcher signs the parameters as passed and sends them with the
\* None ones dropped: a templated parameter that is None is signed as the text
\* "None" and left out of the query string, so what is signed and what is sent
\* agree exactly when every templated parameter is not None.
C11_SignsUnfilteredSendsFiltered ==
    \A t \in Tasks :
        LET c == tasks[t]
            keys == SignedKeys(c)
            sent == c.request.params
        IN  SentSigned(c) =>
              /\ sent["sign"] =
                    Digest(IF inst.use_md5 THEN "md5" ELSE "sha256",
                           SignedEndpoint(c) \o inst.api_id \o PassedText(c, keys)
                              \o inst.api_key)
              /\ \A k \in Range(keys) :
                    /\ Passed(c, k) = None => k \notin DOMAIN sent
                    /\ Passed(c, k) # None => (k \in DOMAIN sent /\ sent[k] = Passed(c, k))
              /\ (Range(keys) \subseteq DOMAIN sent)
                    <=> (\A k \in Range(keys) : Passed(c, k) # None)
              /\ (c.op \in {"get_commissions", "commissions", "get_payments"}
                    /\ Passed(c, "project_id") = None) =>
                    /\ sent["sign"].s =
                          TableEndpoint(c.op) \o inst.api_id \o "None" \o inst.api_key
                    /\ "project_id" \notin DOMAIN sent

\* commissions asked with no project_id on a facade built without one
C11_Witness ==
    \E t \in Tasks :
        /\ tasks[t].op = "get_commissions"
        /\ tasks[t].args["project_id"] = None
        /\ inst.project_id = None
        /\ tasks[t].request # NoRequest
        /\ tasks[t].request.params["sign"].s = "commissionsXNoneY"
        /\ DOMAIN tasks[t].request.params = {"sign"}

----------------------------------------------------------------------------
(* C12 *)

\* the text of a merchant parameter as sent; one left out was None
SentText(sent, k) == IF k \in DOMAIN sent THEN Str(sent[k]) ELSE "None"

\* the signed text rebuilt from the fields the request carries and a secret
BillTextOfSent(sent, use_md5, secret) ==
    IF use_md5
    THEN SentText(sent, "currency") \o ":" \o SentText(sent, "amount") \o ":"
            \o secret \o ":" \o SentText(sent, "merchant_id") \o ":"
            \o SentText(sent, "pay_id")
    ELSE SentText(sent, "merchant_id") \o ":" \o SentText(sent, "pay_id") \o ":"
            \o SentText(sent, "amount") \o ":" \o SentText(sent, "currency") \o ":"
            \o SentText(sent, "desc") \o ":" \o SentText(sent, "success_url") \o ":"
            \o SentText(sent, "fail_url") \o ":" \o secret

\* the sign sent is the digest of the signed fields as they are sent
SignCoversSent(c) ==
    LET sent == c.request.params
    IN  /\ "sign" \in DOMAIN sent
        /\ sent["sign"].t = (IF c.md5 THEN "md5" ELSE "sha256")
        /\ \E secret \in {c.args["project_secret"], inst.project_secret} :
              sent["sign"].s = BillTextOfSent(sent, c.md5, Str(secret))

BillKeys ==
    {"merchant_id", "pay_id", "amount", "currency", "desc", "method", "email",
     "phone", "success_url", "fail_url", "lang", "sign"}

\* C12: in create_bill, whatever the pass-through keyword parameters, the
\* `sign` sent is the digest computed from the signed fields and the signed
\* fields sent carry the values that were hashed: pass-through parameters add
\* keys and replace neither the signature nor a signed field.
C12_PassThroughOnlyAdds ==
    \A t \in Tasks : Billed(tasks[t]) => SignCoversSent(tasks[t])

\* the part of C12 the code keeps: pass-through keys that are none of the
\* keys create_bill sets itself
C12_FreshKeysOnlyAdd ==
    \A t \in Tasks :
        (Billed(tasks[t]) /\ DOMAIN tasks[t].kwargs \cap BillKeys = {}) =>
           SignCoversSent(tasks[t])

====
